---- MODULE Spec2Model ----
(***************************************************************************)
(* Model of cam-tool's `violent-cleanup` command (src/src/main.rs).        *)
(*                                                                         *)
(* One run of main(): an initial usage check, one directory scan           *)
(* (find_matching_files), then the loop that pops the oldest candidate,    *)
(* re-reads the usage, reports the candidate and (with --actually-rm)      *)
(* removes it.  The filesystem is the environment: every statvfs call and  *)
(* every remove_file call draws its outcome from the outcomes the call can *)
(* have.                                                                   *)
(***************************************************************************)
EXTENDS Integers, Sequences, FiniteSets, TLC

VARIABLES
    tree,                  \* what WalkDir yields for the directory, in walk order
    disk,                  \* paths that currently exist
    filter_extensions,     \* --filter-extensions
    target_use_percentage, \* --target-use-percentage (u8)
    actually_rm,           \* --actually-rm
    pc,                    \* position of main()
    matches,               \* the VecDeque<PathBuf> of main()
    candidate,             \* the popped candidate awaiting remove_file (0: none)
    scanned,               \* history: the queue as find_matching_files returned it
    trace,                 \* history: the calls made so far, with their results
    usage_call,            \* one call of read_use_percentage on its own: the
                           \* statvfs result, the build's overflow checks, the outcome
    others                 \* history: the paths other processes created, created
                           \* after the scan, and removed

vars == <<tree, disk, filter_extensions, target_use_percentage, actually_rm,
          pc, matches, candidate, scanned, trace, usage_call, others>>

----------------------------------------------------------------------------
(* Bounds *)

MaxEntries == 3
MaxTime == 3
MaxBlocks == 1
MaxStatBlocks == 10
MaxRuns == 2
MaxCreated == 1
MaxUnlinked == 1

----------------------------------------------------------------------------
(* Result values *)

Ok(v) == [tag |-> "Ok", val |-> v]
Err == [tag |-> "Err", val |-> 0]
Panic == [tag |-> "Panic", val |-> 0]

Event(e, r, v) == [ev |-> e, res |-> r, val |-> v]

----------------------------------------------------------------------------
(* read_use_percentage *)

\* nix::sys::statvfs::statvfs: an error, or the block counts of the filesystem.
\* A pseudo filesystem reports blocks = 0; nothing in the code relates the
\* two counts, so a free count above the total is among the values drawn.
StatvfsResults ==
    {[tag |-> "Err", blocks |-> 0, free |-> 0]} \cup
    {[tag |-> "Ok", blocks |-> b, free |-> f] :
        b \in 0..MaxBlocks, f \in 0..(MaxBlocks + 1)}

\* u8::try_from(u64)
u8_try_from(v) == IF v \in 0..255 THEN Ok(v) ELSE Err

\* Variant that returns the free share instead of the used share.
read_use_percentage_free(stat, overflow_checks) ==
    IF stat.tag = "Err" THEN Err
    ELSE IF stat.blocks = 0 THEN Panic
    ELSE u8_try_from((stat.free * 100) \div stat.blocks)

\* `100u64 - q`: with overflow checks (debug build) a q above 100 panics;
\* without them the difference wraps to 2^64 + 100 - q, which exceeds 255
\* for every q below 2^64 - 155, so u8::try_from then fails.
read_use_percentage(stat, overflow_checks) ==
    IF stat.tag = "Err" THEN Err
    ELSE IF stat.blocks = 0 THEN Panic
    ELSE LET q == (stat.free * 100) \div stat.blocks
         IN  IF q > 100
             THEN IF overflow_checks THEN Panic ELSE Err
             ELSE u8_try_from(100 - q)

\* The statvfs results a call of read_use_percentage is tried on by itself.
StatvfsSamples ==
    {[tag |-> "Err", blocks |-> 0, free |-> 0]} \cup
    {[tag |-> "Ok", blocks |-> b, free |-> f] :
        b \in 0..MaxStatBlocks, f \in 0..(MaxStatBlocks + 1)}

NoOthers == [created |-> {}, after_scan |-> {}, unlinked |-> {}]

NoCall == [stat |-> [tag |-> "Err", blocks |-> 0, free |-> 0],
           overflow_checks |-> FALSE, result |-> [tag |-> "None", val |-> 0]]

\* The outcomes one usage query can have.
UsageOutcomes ==
    {read_use_percentage(s, oc) : s \in StatvfsResults, oc \in BOOLEAN}

\* Variants of the comparison: operands swapped, and `<=` for `<`.
BelowTarget_swapped(use_percentage, target) == target < use_percentage

BelowTarget_le(use_percentage, target) == use_percentage <= target

\* `use_percentage < target_use_percentage`
BelowTarget(use_percentage, target) == use_percentage < target

----------------------------------------------------------------------------
(* find_matching_files *)

\* What the walk yields now: entries that still exist, and traversal errors.
Walk == SelectSeq(tree, LAMBDA e : e.err = "walk" \/ e.path \in disk)

\* Variant without the `is_file` test.
dir_entry_to_modified_any_type(entry) ==
    IF entry.err = "walk" THEN [tag |-> "Err"]
    ELSE IF entry.err = "meta" THEN [tag |-> "Err"]
    ELSE [tag |-> "Some", path |-> entry.path, modified |-> entry.modified]

\* Result<Option<(PathBuf, u64)>>
dir_entry_to_modified(entry) ==
    IF entry.err = "walk" THEN [tag |-> "Err"]
    ELSE IF entry.kind # "file" THEN [tag |-> "None"]
    ELSE IF entry.err = "meta" THEN [tag |-> "Err"]
    ELSE [tag |-> "Some", path |-> entry.path, modified |-> entry.modified]

\* The body of the `for` loop: is the entry pushed to `matches`?
IsMatch(entry, filter) ==
    /\ dir_entry_to_modified(entry).tag = "Some"
    /\ entry.ext # {}
    /\ \E e \in filter : e \in entry.ext

\* Variant that ends the walk at the first entry that fails.
RECURSIVE CollectMatches_stop_at_error(_, _)
CollectMatches_stop_at_error(walk, filter) ==
    IF walk = <<>> THEN <<>>
    ELSE LET e == Head(walk)
         IN  IF dir_entry_to_modified(e).tag = "Err" THEN <<>>
             ELSE IF IsMatch(e, filter)
             THEN <<[path |-> e.path, modified |-> e.modified]>>
                      \o CollectMatches_stop_at_error(Tail(walk), filter)
             ELSE CollectMatches_stop_at_error(Tail(walk), filter)

\* `matches` after the `for` loop: (path, modified) pairs in walk order.
RECURSIVE CollectMatches(_, _)
CollectMatches(walk, filter) ==
    IF walk = <<>> THEN <<>>
    ELSE LET rest == CollectMatches(Tail(walk), filter)
             e == Head(walk)
         IN  IF IsMatch(e, filter)
             THEN <<[path |-> e.path, modified |-> e.modified]>> \o rest
             ELSE rest

IsSortedByKey(v) ==
    \A i, j \in 1..Len(v) : i < j => v[i].modified <= v[j].modified

Permutations_(n) ==
    {p \in [1..n -> 1..n] : \A i, j \in 1..n : p[i] = p[j] => i = j}

\* Variants of the sort: none at all, and one that keeps a single element
\* per key.
sort_none(v) == {v}

sort_dedup_by_key(v) ==
    {SelectSeq(v, LAMBDA x : \A y \in {v[i] : i \in 1..Len(v)} :
                                 y.modified = x.modified => y.path >= x.path)}

\* slice::sort_unstable_by_key: the result is sorted by key, and the order of
\* elements with equal keys is unspecified: every sorted permutation is a
\* result the call may produce.
sort_unstable_by_key(v) ==
    {s \in {[i \in 1..Len(v) |-> v[p[i]]] : p \in Permutations_(Len(v))} :
        IsSortedByKey(s)}

\* `.map(|(path, _)| path).collect()`
Paths(v) == [i \in 1..Len(v) |-> v[i].path]

\* The queues find_matching_files may return (it never returns Err).
find_matching_files(walk, filter) ==
    {Paths(s) : s \in sort_unstable_by_key(CollectMatches(walk, filter))}

----------------------------------------------------------------------------
(* the loop *)

\* Variant taking the newest candidate: pop_back.
pop_back(q) == [head |-> q[Len(q)], rest |-> SubSeq(q, 1, Len(q) - 1)]

\* VecDeque::pop_front on a non-empty queue
pop_front(q) == [head |-> Head(q), rest |-> Tail(q)]

\* Variant that removes whatever the flag says.
AfterReport_always(rm) == "remove"

\* `if actually_rm { fs::remove_file(..)?; }`
AfterReport(rm) == IF rm THEN "remove" ELSE "loop"

\* Variant that carries on after a failed usage query.
CheckPc_ignore_error(r, target, onward) ==
    IF r.tag = "Panic" THEN "panicked"
    ELSE IF r.tag = "Ok" /\ r.val < target THEN "done"
    ELSE onward

\* `read_use_percentage(..)?` followed by `if use_percentage < target`:
\* where main() goes after a usage query with outcome r.
CheckPc(r, target, onward) ==
    IF r.tag = "Err" THEN "failed"
    ELSE IF r.tag = "Panic" THEN "panicked"
    ELSE IF BelowTarget(r.val, target) THEN "done"
    ELSE onward

\* Variant that swallows the error of remove_file.
AfterRemove_swallow(tag) == "loop"

\* `fs::remove_file(&candidate)?`: where main() goes after the call
AfterRemove(tag) == IF tag = "Ok" THEN "loop" ELSE "failed"

\* Variant that takes a missing path for removed, as `rm -f` does.
remove_file_force(path, d) ==
    {[tag |-> "Err", disk |-> d], [tag |-> "Ok", disk |-> d \ {path}]}

\* fs::remove_file: fails when the path is gone; may fail otherwise as well
\* (permissions, read-only filesystem, ...).
remove_file(path, d) ==
    {[tag |-> "Err", disk |-> d]} \cup
    (IF path \in d THEN {[tag |-> "Ok", disk |-> d \ {path}]} ELSE {})

----------------------------------------------------------------------------
(* Initial states *)

\* no filter, and the default of --filter-extensions
FilterSets == {{}, {"mp4", "jpg"}}
TargetSet == {0, 50, 100}

File(ext, t) == [kind |-> "file", ext |-> ext, modified |-> t, err |-> "none"]

\* Directory contents of a run: candidate files of every age, a file the
\* filters never match, and a directory whose name carries a matching extension.
RunShapes ==
    {File({"mp4"}, t) : t \in 1..MaxTime}
    \cup {File({"txt"}, 1),
          [kind |-> "dir", ext |-> {"mp4"}, modified |-> 1, err |-> "none"]}

\* Directory contents for the scanner alone: every kind of entry.
ScanShapes ==
    {File({"mp4"}, t) : t \in 1..MaxTime}
    \cup {File(x, 1) : x \in {{"jpg"}, {"MP4"}, {"txt"}, {}}}
    \cup {[kind |-> "dir", ext |-> {"mp4"}, modified |-> 1, err |-> "none"],
          [kind |-> "symlink", ext |-> {"mp4"}, modified |-> 1, err |-> "none"],
          [kind |-> "file", ext |-> {"mp4"}, modified |-> 1, err |-> "meta"],
          [kind |-> "dir", ext |-> {}, modified |-> 1, err |-> "walk"]}

Trees(shapes) ==
    UNION {{[i \in 1..n |-> [path |-> i] @@ f[i]] : f \in [1..n -> shapes]} :
           n \in 0..MaxEntries}

Existing(t) == {t[i].path : i \in {j \in 1..Len(t) : t[j].err # "walk"}}

Init ==
    /\ tree \in Trees(RunShapes)
    /\ disk = Existing(tree)
    /\ filter_extensions \in FilterSets
    /\ target_use_percentage \in TargetSet
    /\ actually_rm \in BOOLEAN
    /\ matches = <<>>
    /\ candidate = 0
    /\ scanned = <<>>
    /\ trace = <<>>
    /\ usage_call = NoCall
    /\ others = NoOthers
    /\ pc = "check"

----------------------------------------------------------------------------
(* Actions *)

\* main, lines 50-54: the initial usage check
InitialCheck ==
    /\ pc = "check"
    /\ \E r \in UsageOutcomes :
        /\ trace' = Append(trace, Event("usage", r.tag, r.val))
        /\ pc' = CheckPc(r, target_use_percentage, "scan")
    /\ UNCHANGED <<usage_call, others>>
    /\ UNCHANGED <<tree, disk, filter_extensions, target_use_percentage,
                   actually_rm, matches, candidate, scanned>>

\* main, line 55: the scan
Scan ==
    /\ pc = "scan"
    /\ \E q \in find_matching_files(Walk, filter_extensions) :
        /\ matches' = q
        /\ scanned' = q
        /\ trace' = Append(trace, Event("scan", "Ok", Len(q)))
    /\ pc' = "loop"
    /\ UNCHANGED <<usage_call, others>>
    /\ UNCHANGED <<tree, disk, filter_extensions, target_use_percentage,
                   actually_rm, candidate>>

\* Variant of the loop with `continue` for `break`: a reading below target
\* skips the candidate and goes on to the next one.
LoopCheck_continue ==
    /\ pc = "loop"
    /\ IF matches = <<>>
       THEN /\ pc' = "done"
            /\ UNCHANGED <<matches, candidate, trace>>
       ELSE LET p == Head(matches)
            IN  /\ matches' = Tail(matches)
                /\ \E r \in UsageOutcomes :
                    LET u == Event("usage", r.tag, r.val)
                    IN  /\ pc' = IF r.tag = "Err" THEN "failed"
                                 ELSE IF r.tag = "Panic" THEN "panicked"
                                 ELSE IF r.val < target_use_percentage THEN "loop"
                                 ELSE IF actually_rm THEN "remove" ELSE "loop"
                        /\ trace' = IF r.tag = "Ok" /\ r.val >= target_use_percentage
                                    THEN trace \o <<u, Event("report", "Ok", p)>>
                                    ELSE Append(trace, u)
                /\ candidate' = IF pc' = "remove" THEN p ELSE 0
    /\ UNCHANGED <<usage_call, others>>
    /\ UNCHANGED <<tree, disk, filter_extensions, target_use_percentage,
                   actually_rm, scanned>>

\* Variant of the loop that looks at the front of the queue without popping it.
LoopCheck_peek ==
    /\ pc = "loop"
    /\ IF matches = <<>>
       THEN /\ pc' = "done"
            /\ UNCHANGED <<matches, candidate, trace>>
       ELSE LET p == Head(matches)
            IN  /\ matches' = matches
                /\ \E r \in UsageOutcomes :
                    LET u == Event("usage", r.tag, r.val)
                    IN  /\ pc' = IF r.tag = "Err" THEN "failed"
                                 ELSE IF r.tag = "Panic" THEN "panicked"
                                 ELSE IF r.val < target_use_percentage THEN "done"
                                 ELSE IF actually_rm THEN "remove" ELSE "loop"
                        /\ trace' = IF r.tag = "Ok" /\ r.val >= target_use_percentage
                                    THEN trace \o <<u, Event("report", "Ok", p)>>
                                    ELSE Append(trace, u)
                /\ candidate' = IF pc' = "remove" THEN p ELSE 0
    /\ UNCHANGED <<usage_call, others>>
    /\ UNCHANGED <<tree, disk, filter_extensions, target_use_percentage,
                   actually_rm, scanned>>

\* Variant of the loop that stops at `<=` where the initial check has `<`.
LoopCheck_le ==
    /\ pc = "loop"
    /\ IF matches = <<>>
       THEN /\ pc' = "done"
            /\ UNCHANGED <<matches, candidate, trace>>
       ELSE LET p == Head(matches)
            IN  /\ matches' = Tail(matches)
                /\ \E r \in UsageOutcomes :
                    LET u == Event("usage", r.tag, r.val)
                    IN  /\ pc' = IF r.tag = "Err" THEN "failed"
                                 ELSE IF r.tag = "Panic" THEN "panicked"
                                 ELSE IF r.val <= target_use_percentage THEN "done"
                                 ELSE IF actually_rm THEN "remove" ELSE "loop"
                        /\ trace' = IF r.tag = "Ok" /\ r.val > target_use_percentage
                                    THEN trace \o <<u, Event("report", "Ok", p)>>
                                    ELSE Append(trace, u)
                /\ candidate' = IF pc' = "remove" THEN p ELSE 0
    /\ UNCHANGED <<usage_call, others>>
    /\ UNCHANGED <<tree, disk, filter_extensions, target_use_percentage,
                   actually_rm, scanned>>

\* Variant of the loop that goes by the reading of the initial check instead
\* of reading the usage again.
LoopCheck_stale ==
    /\ pc = "loop"
    /\ IF matches = <<>>
       THEN /\ pc' = "done"
            /\ UNCHANGED <<matches, candidate, trace>>
       ELSE LET p == Head(matches)
                first == SelectSeq(trace, LAMBDA e : e.ev = "usage")[1]
            IN  /\ matches' = Tail(matches)
                /\ pc' = IF first.val < target_use_percentage THEN "done"
                         ELSE IF actually_rm THEN "remove" ELSE "loop"
                /\ trace' = IF first.val >= target_use_percentage
                            THEN Append(trace, Event("report", "Ok", p))
                            ELSE trace
                /\ candidate' = IF pc' = "remove" THEN p ELSE 0
    /\ UNCHANGED <<usage_call, others>>
    /\ UNCHANGED <<tree, disk, filter_extensions, target_use_percentage,
                   actually_rm, scanned>>

\* Variant of the loop that reports the candidate before reading the usage.
LoopCheck_report_first ==
    /\ pc = "loop"
    /\ IF matches = <<>>
       THEN /\ pc' = "done"
            /\ UNCHANGED <<matches, candidate, trace>>
       ELSE LET p == Head(matches)
            IN  /\ matches' = Tail(matches)
                /\ \E r \in UsageOutcomes :
                    /\ pc' = IF r.tag = "Err" THEN "failed"
                             ELSE IF r.tag = "Panic" THEN "panicked"
                             ELSE IF r.val < target_use_percentage THEN "done"
                             ELSE IF actually_rm THEN "remove" ELSE "loop"
                    /\ trace' = trace \o <<Event("report", "Ok", p),
                                           Event("usage", r.tag, r.val)>>
                /\ candidate' = IF pc' = "remove" THEN p ELSE 0
    /\ UNCHANGED <<usage_call, others>>
    /\ UNCHANGED <<tree, disk, filter_extensions, target_use_percentage,
                   actually_rm, scanned>>

\* Variant of the loop that scans the directory again in every iteration.
LoopCheck_rescan ==
    /\ pc = "loop"
    /\ \E q \in find_matching_files(Walk, filter_extensions) :
        IF q = <<>>
        THEN /\ pc' = "done"
             /\ UNCHANGED <<matches, candidate, trace>>
        ELSE /\ matches' = Tail(q)
             /\ \E r \in UsageOutcomes :
                 LET u == Event("usage", r.tag, r.val)
                 IN  /\ pc' = IF r.tag = "Err" THEN "failed"
                              ELSE IF r.tag = "Panic" THEN "panicked"
                              ELSE IF r.val < target_use_percentage THEN "done"
                              ELSE IF actually_rm THEN "remove" ELSE "loop"
                     /\ trace' = IF r.tag = "Ok" /\ r.val >= target_use_percentage
                                 THEN trace \o <<u, Event("report", "Ok", Head(q))>>
                                 ELSE Append(trace, u)
             /\ candidate' = IF pc' = "remove" THEN Head(q) ELSE 0
    /\ UNCHANGED <<usage_call, others>>
    /\ UNCHANGED <<tree, disk, filter_extensions, target_use_percentage,
                   actually_rm, scanned>>

\* main, lines 56-61: pop, re-read the usage, stop or report
LoopCheck ==
    /\ pc = "loop"
    /\ IF matches = <<>>
       THEN /\ pc' = "done"
            /\ UNCHANGED <<matches, candidate, trace>>
       ELSE LET p == pop_front(matches)
            IN  /\ matches' = p.rest
                /\ \E r \in UsageOutcomes :
                    LET u == Event("usage", r.tag, r.val)
                    IN  /\ pc' = CheckPc(r, target_use_percentage,
                                         AfterReport(actually_rm))
                        /\ trace' = IF r.tag = "Ok" /\
                                       ~BelowTarget(r.val, target_use_percentage)
                                    THEN trace \o <<u, Event("report", "Ok", p.head)>>
                                    ELSE Append(trace, u)
                /\ candidate' = IF pc' = "remove" THEN p.head ELSE 0
    /\ UNCHANGED <<usage_call, others>>
    /\ UNCHANGED <<tree, disk, filter_extensions, target_use_percentage,
                   actually_rm, scanned>>

\* main, lines 62-64: fs::remove_file(&candidate)?
Remove ==
    /\ pc = "remove"
    /\ \E r \in remove_file(candidate, disk) :
        /\ disk' = r.disk
        /\ trace' = Append(trace, Event("remove", r.tag, candidate))
        /\ pc' = AfterRemove(r.tag)
    /\ candidate' = 0
    /\ UNCHANGED <<usage_call, others>>
    /\ UNCHANGED <<tree, filter_extensions, target_use_percentage,
                   actually_rm, matches, scanned>>

Next == InitialCheck \/ Scan \/ LoopCheck \/ Remove

Spec == Init /\ [][Next]_vars

\* Runs over directories of candidates of one age and unmatched files: the
\* age of a candidate plays no part in how the loop proceeds.
PlainShapes == {File({"mp4"}, 1), File({"txt"}, 1)}

InitPlain ==
    /\ tree \in Trees(PlainShapes)
    /\ disk = Existing(tree)
    /\ filter_extensions \in FilterSets
    /\ target_use_percentage \in TargetSet
    /\ actually_rm \in BOOLEAN
    /\ matches = <<>>
    /\ candidate = 0
    /\ scanned = <<>>
    /\ trace = <<>>
    /\ usage_call = NoCall
    /\ others = NoOthers
    /\ pc = "check"

\* main() is sequential: whenever a step is possible it is taken.
SpecFair == InitPlain /\ [][Next]_vars /\ WF_vars(Next)

----------------------------------------------------------------------------
(* Running the command again with the same arguments after a run has       *)
(* returned Ok(()).                                                        *)

\* The number of the current run, read off its start marker
Runs ==
    LET starts == SelectSeq(trace, LAMBDA e : e.ev = "start")
    IN  IF starts = <<>> THEN 1 ELSE starts[1].val

\* main, lines 34-49: a new process, with a new empty queue.  The history
\* keeps the last call of the run before, the start marker, and from there
\* the calls of the new run.
Rerun ==
    /\ pc = "done"
    /\ Runs < MaxRuns
    /\ pc' = "check"
    /\ matches' = <<>>
    /\ candidate' = 0
    /\ scanned' = <<>>
    /\ trace' = <<trace[Len(trace)], Event("start", "Ok", Runs + 1)>>
    /\ UNCHANGED <<usage_call, others>>
    /\ UNCHANGED <<tree, disk, filter_extensions, target_use_percentage, actually_rm>>

NextRerun == InitialCheck \/ Scan \/ LoopCheck \/ Remove \/ Rerun

SpecRerun == InitPlain /\ [][NextRerun]_vars

----------------------------------------------------------------------------
(* Other processes at work in the directory while the command runs: the    *)
(* code takes no lock, so their steps interleave freely with those of main. *)

Running == pc \in {"check", "scan", "loop", "remove"}

\* Directories of candidates only, walked from the oldest to the newest
AgedTree(n) ==
    [i \in 1..n |-> [path |-> i] @@ File({"mp4"}, IF i < MaxTime THEN i ELSE MaxTime)]

InitEnv ==
    /\ tree \in {AgedTree(n) : n \in 0..MaxEntries}
    /\ disk = Existing(tree)
    /\ filter_extensions \in FilterSets
    /\ target_use_percentage \in TargetSet
    /\ actually_rm \in BOOLEAN
    /\ matches = <<>>
    /\ candidate = 0
    /\ scanned = <<>>
    /\ trace = <<>>
    /\ usage_call = NoCall
    /\ others = NoOthers
    /\ pc = "check"

\* Another process creates a matching file under the root.
OtherCreates ==
    /\ Running
    /\ Cardinality(others.created) < MaxCreated
    /\ LET p == Len(tree) + 1
       IN  /\ tree' = Append(tree, [path |-> p] @@ File({"mp4"}, 1))
           /\ disk' = disk \cup {p}
           /\ others' = [others EXCEPT
                            !.created = @ \cup {p},
                            !.after_scan = IF \E i \in 1..Len(trace) : trace[i].ev = "scan"
                                           THEN @ \cup {p} ELSE @]
    /\ UNCHANGED <<filter_extensions, target_use_percentage, actually_rm,
                   pc, matches, candidate, scanned, trace, usage_call>>

\* Another process removes a file of the directory.
OtherUnlinks ==
    /\ Running
    /\ Cardinality(others.unlinked) < MaxUnlinked
    /\ \E p \in disk :
        /\ disk' = disk \ {p}
        /\ others' = [others EXCEPT !.unlinked = @ \cup {p}]
    /\ UNCHANGED <<tree, filter_extensions, target_use_percentage, actually_rm,
                   pc, matches, candidate, scanned, trace, usage_call>>

NextEnv == InitialCheck \/ Scan \/ LoopCheck \/ Remove \/ OtherCreates \/ OtherUnlinks

SpecEnv == InitEnv /\ [][NextEnv]_vars

----------------------------------------------------------------------------
(* The scanner alone: main() is about to call find_matching_files on a     *)
(* directory holding every kind of entry.                                  *)

ScanFilterSets == {{}, {"mp4"}, {"MP4"}, {"mp4", "jpg"}}

InitScan ==
    /\ tree \in Trees(ScanShapes)
    /\ disk = Existing(tree)
    /\ filter_extensions \in ScanFilterSets
    /\ target_use_percentage = 100
    /\ actually_rm = FALSE
    /\ matches = <<>>
    /\ candidate = 0
    /\ scanned = <<>>
    /\ trace = <<Event("usage", "Ok", 100)>>
    /\ usage_call = NoCall
    /\ others = NoOthers
    /\ pc = "scan"

NextScan == Scan

SpecScan == InitScan /\ [][NextScan]_vars

----------------------------------------------------------------------------
(* read_use_percentage alone: one call on one statvfs result, in a build   *)
(* with or without overflow checks.                                        *)

InitUsage ==
    /\ tree = <<>>
    /\ disk = {}
    /\ filter_extensions = {}
    /\ target_use_percentage \in TargetSet
    /\ actually_rm = FALSE
    /\ matches = <<>>
    /\ candidate = 0
    /\ scanned = <<>>
    /\ trace = <<>>
    /\ \E s \in StatvfsSamples, oc \in BOOLEAN :
          usage_call = [stat |-> s, overflow_checks |-> oc,
                        result |-> [tag |-> "None", val |-> 0]]
    /\ others = NoOthers
    /\ pc = "check"

\* main, lines 50-54, the statvfs result being usage_call.stat
CheckSample ==
    /\ pc = "check"
    /\ usage_call.result.tag = "None"
    /\ LET r == read_use_percentage(usage_call.stat, usage_call.overflow_checks)
       IN  /\ usage_call' = [usage_call EXCEPT !.result = r]
           /\ trace' = Append(trace, Event("usage", r.tag, r.val))
           /\ pc' = CheckPc(r, target_use_percentage, "scan")
    /\ UNCHANGED <<tree, disk, filter_extensions, target_use_percentage,
                   actually_rm, matches, candidate, scanned, others>>

NextUsage == CheckSample

SpecUsage == InitUsage /\ [][NextUsage]_vars

----------------------------------------------------------------------------
(* Vocabulary of the properties *)

Idx == 1..Len(trace)

InitialDisk == Existing(tree)

IsReading(i) == trace[i].ev = "usage" /\ trace[i].res = "Ok"

\* Paths whose remove_file call succeeded among the first n calls of the run
RemovedUpTo(n) ==
    {trace[i].val : i \in {j \in 1..n : trace[j].ev = "remove" /\ trace[j].res = "Ok"}}

EventsOf(kind) == SelectSeq(trace, LAMBDA e : e.ev = kind)

PathsOf(events) == [i \in 1..Len(events) |-> events[i].val]

RemovedSeq == PathsOf(SelectSeq(trace, LAMBDA e : e.ev = "remove" /\ e.res = "Ok"))

\* Loop iterations whose usage check returned a value not below target
Proceeding ==
    {i \in Idx : i > 1 /\ IsReading(i) /\ trace[i].val >= target_use_percentage}

ModifiedOf(path) == tree[path].modified

NonDecreasing(paths) ==
    \A i, j \in 1..Len(paths) : i < j => ModifiedOf(paths[i]) <= ModifiedOf(paths[j])

----------------------------------------------------------------------------
\* C1: when the initial usage query returns a value strictly below the
\* target, the scanner is never invoked, nothing is deleted and the run
\* ends successfully.
C1_BelowTargetNoScan ==
    (trace # <<>> /\ IsReading(1) /\ trace[1].val < target_use_percentage)
        => /\ pc = "done"
           /\ Len(trace) = 1
           /\ scanned = <<>> /\ matches = <<>>
           /\ disk = InitialDisk

\* A run over a directory that holds a matching file ended at the initial check.
C1_Witness ==
    /\ pc = "done" /\ Len(trace) = 1
    /\ IsReading(1) /\ trace[1].val < target_use_percentage
    /\ \E i \in 1..Len(tree) : tree[i].kind = "file" /\ tree[i].ext \subseteq filter_extensions
                               /\ tree[i].ext # {}

\* C2: once a usage query (initial or in-loop) has returned a value below
\* the target, no file is reported or deleted afterwards, even if candidates
\* remain in the queue.
C2_NoDeleteAfterBelow ==
    \A i \in Idx :
        (IsReading(i) /\ trace[i].val < target_use_percentage)
            => /\ \A j \in Idx : j > i => trace[j].ev \notin {"remove", "report"}
               /\ pc # "remove"
               /\ disk = InitialDisk \ RemovedUpTo(i)

\* An in-loop check met the target after a deletion, with candidates left.
C2_Witness ==
    /\ Len(trace) > 1
    /\ IsReading(Len(trace)) /\ trace[Len(trace)].val < target_use_percentage
    /\ RemovedSeq # <<>>
    /\ matches # <<>>
    /\ pc = "done"

\* C3: in commit mode with no error, the files deleted are exactly the first
\* k entries of the scanned queue, in queue order, where k is the number of
\* loop iterations whose usage check was not below target (less the one
\* whose remove_file call is still pending); every later candidate is on disk.
C3_DeletesPrefix ==
    (actually_rm /\ pc \in {"loop", "remove", "done"})
        => LET k == Cardinality(Proceeding) - (IF pc = "remove" THEN 1 ELSE 0)
           IN  /\ k <= Len(scanned)
               /\ RemovedSeq = SubSeq(scanned, 1, k)
               /\ disk = InitialDisk \ {scanned[j] : j \in 1..k}
               /\ \A j \in (k+1)..Len(scanned) : scanned[j] \in disk

\* Three candidates, target met after one deletion: one removed, two remain.
C3_Witness ==
    /\ actually_rm /\ pc = "done"
    /\ Len(scanned) = 3
    /\ RemovedSeq = <<scanned[1]>>
    /\ {scanned[2], scanned[3]} \subseteq disk

\* C4: in dry-run mode the run never mutates the filesystem: no remove_file
\* call is made and the files on disk are those present at the start.
C4_DryRunNoMutation ==
    ~actually_rm
        => /\ disk = InitialDisk
           /\ pc # "remove"
           /\ \A i \in Idx : trace[i].ev # "remove"

\* A dry run reported two candidates and finished.
C4_Witness ==
    /\ ~actually_rm /\ pc = "done"
    /\ Len(EventsOf("report")) >= 2

\* C5: when a remove_file call fails the run aborts at once with an error:
\* no later usage query, report or delete, and the candidates deleted
\* earlier stay deleted.
C5_DeleteFailureAborts ==
    \A i \in Idx :
        (trace[i].ev = "remove" /\ trace[i].res = "Err")
            => /\ i = Len(trace)
               /\ pc = "failed"
               /\ disk = InitialDisk \ RemovedUpTo(i)
               /\ \A j \in 1..Len(matches) : matches[j] \in disk

\* The delete of the second candidate failed, with a third still queued.
C5_Witness ==
    /\ pc = "failed"
    /\ Len(RemovedSeq) = 1
    /\ trace[Len(trace)].ev = "remove" /\ trace[Len(trace)].res = "Err"
    /\ matches # <<>>

\* C6 as stated: a usage reading at or below the target (equal included)
\* stops the run: no scan after the initial check, no report or deletion after.
C6_StopsAtOrBelow ==
    \A i \in Idx :
        (IsReading(i) /\ trace[i].val <= target_use_percentage)
            => /\ i = 1 => (pc # "scan" /\ \A j \in Idx : trace[j].ev # "scan")
               /\ \A j \in Idx : j > i => trace[j].ev \notin {"remove", "report"}
               /\ pc # "remove"

\* C6 (amended): a reading strictly below the target stops the run (no scan,
\* no report, no deletion after it); a reading equal to the target does not:
\* after the initial check the scan follows, and in the loop the candidate
\* of that iteration is reported.
C6_StopsStrictlyBelow ==
    \A i \in Idx :
        /\ (IsReading(i) /\ trace[i].val < target_use_percentage)
              => (i = Len(trace) /\ pc = "done")
        /\ (IsReading(i) /\ trace[i].val = target_use_percentage)
              => IF i = 1
                 THEN pc = "scan" \/ (Len(trace) >= 2 /\ trace[2].ev = "scan")
                 ELSE Len(trace) > i /\ trace[i+1].ev = "report"

\* A reading equal to a non-zero target was followed by a deletion.
C6_Witness ==
    /\ target_use_percentage > 0
    /\ \E i \in Idx :
        /\ i > 1 /\ IsReading(i) /\ trace[i].val = target_use_percentage
        /\ \E j \in Idx : j > i /\ trace[j].ev = "remove" /\ trace[j].res = "Ok"

\* C7: the queue the scanner returns is sorted non-decreasing by modified
\* time, so candidates are reported and deleted oldest first.
C7_OldestFirst ==
    /\ NonDecreasing(scanned)
    /\ NonDecreasing(PathsOf(EventsOf("report")))
    /\ NonDecreasing(RemovedSeq)

\* Files walked with times 3, 1, 2 were all deleted, in the order 1, 2, 3.
C7_Witness ==
    /\ Len(tree) = 3
    /\ ModifiedOf(1) = 3 /\ ModifiedOf(2) = 1 /\ ModifiedOf(3) = 2
    /\ RemovedSeq = <<2, 3, 1>>

\* The stable sort by modified time: each element goes behind the elements
\* already placed whose time is not later.
InsertByKey(s, x) ==
    LET n == Cardinality({i \in 1..Len(s) : s[i].modified <= x.modified})
    IN  SubSeq(s, 1, n) \o <<x>> \o SubSeq(s, n + 1, Len(s))

RECURSIVE StableSort(_)
StableSort(v) ==
    IF v = <<>> THEN <<>>
    ELSE InsertByKey(StableSort(SubSeq(v, 1, Len(v) - 1)), v[Len(v)])

\* The matched entries of the directory, in walk order, read off the tree
WalkOrder ==
    SelectSeq(tree, LAMBDA e : /\ e.err = "none" /\ e.kind = "file"
                               /\ e.ext # {} /\ e.ext \subseteq filter_extensions)

Scanned == pc # "scan" /\ \E i \in Idx : trace[i].ev = "scan"

\* C8 as stated: the scanner's sort is stable, so candidates with equal
\* modified time are queued in the order in which the walk visited them.
C8_StableOrder ==
    Scanned => scanned = Paths(StableSort(WalkOrder))

\* C8 (amended): the queue is a permutation of the matched entries sorted by
\* modified time; candidates with equal modified time may come in any
\* relative order, and only when no two matched entries share a modified
\* time is the queue the stable sort of the walk order.
C8_SortedPermutation ==
    Scanned =>
        /\ Len(scanned) = Len(WalkOrder)
        /\ {scanned[i] : i \in 1..Len(scanned)} = {WalkOrder[i].path : i \in 1..Len(WalkOrder)}
        /\ \A i, j \in 1..Len(scanned) :
              (i < j /\ ModifiedOf(scanned[i]) # ModifiedOf(scanned[j]))
                  => ModifiedOf(scanned[i]) < ModifiedOf(scanned[j])
        /\ (\A i, j \in 1..Len(WalkOrder) :
                i # j => WalkOrder[i].modified # WalkOrder[j].modified)
              => scanned = Paths(StableSort(WalkOrder))

\* Two candidates of equal modified time are queued against the walk order.
C8_Witness ==
    /\ Scanned
    /\ \E i, j \in 1..Len(scanned) :
        /\ i < j /\ scanned[i] > scanned[j]
        /\ ModifiedOf(scanned[i]) = ModifiedOf(scanned[j])

\* C9: every queue entry is a regular file under the root whose extension
\* is exactly (case-sensitively) a member of the filter set; entries with a
\* wrong extension, without extension, or that are not regular files never
\* appear, and the empty filter set yields the empty queue.
C9_OnlyMatchingFiles ==
    Scanned =>
        /\ \A i \in 1..Len(scanned) :
              /\ scanned[i] \in 1..Len(tree)
              /\ scanned[i] \in InitialDisk
              /\ tree[scanned[i]].kind = "file"
              /\ tree[scanned[i]].ext # {}
              /\ tree[scanned[i]].ext \subseteq filter_extensions
        /\ filter_extensions = {} => scanned = <<>>

\* A directory named like a match, a file whose extension differs in case
\* only and a matching file were walked; the queue holds the matching file.
C9_Witness ==
    /\ Scanned
    /\ filter_extensions = {"mp4"}
    /\ \E i, j, k \in 1..Len(tree) :
        /\ tree[i].kind = "dir" /\ tree[i].ext = {"mp4"} /\ tree[i].err = "none"
        /\ tree[j].kind = "file" /\ tree[j].ext = {"MP4"}
        /\ tree[k].kind = "file" /\ tree[k].ext = {"mp4"} /\ tree[k].err = "none"
        /\ scanned = <<k>>

\* C10: a failing usage query is fatal wherever it occurs: it is the last
\* call of the run, which ends with an error; after a failing initial query
\* there is no scan and no deletion, after a failing recheck the current
\* candidate is neither reported nor deleted, and earlier deletions stay.
C10_UsageFailureFatal ==
    \A i \in Idx :
        (trace[i].ev = "usage" /\ trace[i].res = "Err")
            => /\ i = Len(trace)
               /\ pc = "failed"
               /\ candidate = 0
               /\ i = 1 => (scanned = <<>> /\ disk = InitialDisk)
               /\ disk = InitialDisk \ RemovedUpTo(i)
               /\ \A j \in 1..Len(matches) : matches[j] \in disk

\* A recheck failed after one deletion, with a candidate popped for it and
\* another still queued.
C10_Witness ==
    /\ pc = "failed"
    /\ Len(RemovedSeq) = 1
    /\ trace[Len(trace)].ev = "usage" /\ trace[Len(trace)].res = "Err"
    /\ Len(scanned) = 3 /\ Len(matches) = 1
    /\ {scanned[2], scanned[3]} \subseteq disk

----------------------------------------------------------------------------
Called == usage_call.result.tag # "None"

\* C11: for statistics with total_blocks > 0 and 0 <= free_blocks <=
\* total_blocks, read_use_percentage returns exactly
\* 100 - floor(free_blocks * 100 / total_blocks), a value in 0..100.
C11_ExactPercentage ==
    LET st == usage_call.stat
        r == usage_call.result
    IN  (Called /\ st.tag = "Ok" /\ st.blocks > 0 /\ st.free <= st.blocks)
            => /\ r.tag = "Ok"
               /\ r.val \in 0..100
               /\ (100 - r.val) * st.blocks <= st.free * 100
               /\ st.free * 100 < (100 - r.val + 1) * st.blocks

\* One free block of three: 100 - floor(100 / 3) = 67.
C11_Witness ==
    /\ Called
    /\ usage_call.stat.tag = "Ok"
    /\ usage_call.stat.blocks = 3 /\ usage_call.stat.free = 1
    /\ usage_call.result = Ok(67)

\* C12: when total_blocks is zero, or the percentage does not fit 0..100
\* (free_blocks * 100 / total_blocks above 100), read_use_percentage returns
\* an error value, which main propagates: it neither produces a percentage
\* nor crashes outside the error path.
C12_RangeErrorIsErr ==
    LET st == usage_call.stat
    IN  (Called /\ st.tag = "Ok" /\
         (st.blocks = 0 \/ st.free * 100 >= 101 * st.blocks))
            => /\ usage_call.result.tag = "Err"
               /\ pc = "failed"

----------------------------------------------------------------------------
Terminal == pc \in {"done", "failed", "panicked"}

\* Usage queries made by the loop (all but the initial one)
LoopQueries == Len(EventsOf("usage")) - 1

\* C13: every run terminates; the loop makes one iteration per scanned
\* candidate at most, so at most |queue| deletions; a run that ends without
\* error ends because a check was below target or because the queue is
\* exhausted, and exhaustion with the target unmet is success, not an error.
C13_Terminates ==
    /\ <>Terminal
    /\ [](Scanned => /\ LoopQueries + Len(matches) = Len(scanned)
                     /\ Len(EventsOf("remove")) <= LoopQueries)
    /\ []((pc = "done" /\ Scanned)
            => \/ matches = <<>>
               \/ (IsReading(Len(trace)) /\
                   trace[Len(trace)].val < target_use_percentage))
    /\ [](pc = "failed" => trace[Len(trace)].res = "Err")

\* Three candidates consumed, the last reading still not below target: done.
C13_Witness ==
    /\ pc = "done"
    /\ Len(scanned) = 3 /\ matches = <<>>
    /\ LoopQueries = 3
    /\ \A i \in Idx : IsReading(i) => trace[i].val >= target_use_percentage
    /\ target_use_percentage > 0

----------------------------------------------------------------------------
\* C14: when a run has ended on a usage check (the check stopped it: the
\* reading was below target) and the next run with the same arguments reads
\* the same usage, that run ends at its initial check: no scan, no report,
\* no deletion.
C14_RerunIsNoOp ==
    \A s \in Idx :
        (/\ trace[s].ev = "start"
         /\ IsReading(s - 1)
         /\ Len(trace) > s
         /\ trace[s + 1] = trace[s - 1])
            => /\ Len(trace) = s + 1 => pc = "done"
               /\ Len(trace) > s + 1 => trace[s + 2].ev = "start"

\* A run removed a file and met the target; the run after it read the same
\* usage and is done.
C14_Witness ==
    /\ pc = "done"
    /\ Len(trace) = 3
    /\ trace[2].ev = "start"
    /\ IsReading(3) /\ trace[3] = trace[1]
    /\ disk # InitialDisk
    /\ \E i \in 1..Len(tree) : i \in disk /\ tree[i].ext = {"mp4"}
                               /\ filter_extensions # {}

----------------------------------------------------------------------------
\* C15: an entry that fails (a traversal error of the walk, or a failure
\* reading its metadata or modified time) is skipped and the scan goes on:
\* every matching regular file that does not fail is in the queue, no
\* failing entry is, and the scan returns Ok.
C15_ScanErrorsAbsorbed ==
    Scanned =>
        /\ trace[Len(trace)] = Event("scan", "Ok", Len(scanned))
        /\ pc = "loop"
        /\ \A i \in 1..Len(tree) :
              (/\ tree[i].err = "none" /\ tree[i].kind = "file"
               /\ tree[i].ext # {} /\ tree[i].ext \subseteq filter_extensions)
                  => \E j \in 1..Len(scanned) : scanned[j] = i
        /\ \A i \in 1..Len(tree) :
              tree[i].err # "none" => \A j \in 1..Len(scanned) : scanned[j] # i

\* A traversal error and a metadata failure came before a matching file in
\* the walk; the queue holds the file.
C15_Witness ==
    /\ Scanned
    /\ Len(tree) = 3
    /\ tree[1].err = "walk" /\ tree[2].err = "meta"
    /\ tree[2].ext \subseteq filter_extensions
    /\ scanned = <<3>>

----------------------------------------------------------------------------
\* Loop iterations begun so far: candidates popped from the queue
Iterations == IF Scanned THEN Len(scanned) - Len(matches) ELSE 0

\* C16: every remove_file call comes right after the report of its candidate
\* and the usage query of the same iteration, whose reading was not below
\* target; no candidate is removed twice; and a run that has begun n loop
\* iterations has made exactly n + 1 usage queries.
C16_FreshReadingPerDelete ==
    /\ \A i \in Idx :
          trace[i].ev = "remove"
              => /\ i >= 3
                 /\ trace[i - 1] = Event("report", "Ok", trace[i].val)
                 /\ IsReading(i - 2)
                 /\ trace[i - 2].val >= target_use_percentage
                 /\ \A j \in Idx : (j # i /\ trace[j].ev = "remove")
                                       => trace[j].val # trace[i].val
    /\ pc \notin {"check", "scan"} => Len(EventsOf("usage")) = Iterations + 1

\* Two removals, each behind its own reading; three iterations, four queries.
C16_Witness ==
    /\ pc = "done"
    /\ Len(RemovedSeq) = 2
    /\ Iterations = 3
    /\ Len(EventsOf("usage")) = 4

----------------------------------------------------------------------------
\* The number of the loop iteration that made the usage query trace[i]
IterationOf(i) == Cardinality({j \in 2..i : trace[j].ev = "usage"})

\* C17: the candidate of an iteration is reported exactly when the usage
\* check of that iteration returned a value not below target, in dry-run and
\* commit mode alike, and nothing else is reported; in commit mode the
\* report of a candidate precedes its remove_file call, so the reported
\* candidates are the candidates whose deletion was attempted.
C17_ReportIffNotBelow ==
    /\ \A i \in Idx :
          (i > 1 /\ trace[i].ev = "usage")
              => ((trace[i].res = "Ok" /\ trace[i].val >= target_use_percentage)
                    <=> (/\ Len(trace) > i
                         /\ IterationOf(i) <= Len(scanned)
                         /\ trace[i + 1] = Event("report", "Ok", scanned[IterationOf(i)])))
    /\ \A i \in Idx :
          trace[i].ev = "report" => (i > 1 /\ trace[i - 1].ev = "usage")
    /\ actually_rm
          => PathsOf(EventsOf("report"))
                = PathsOf(EventsOf("remove")) \o (IF pc = "remove" THEN <<candidate>> ELSE <<>>)

\* A dry run reported the first two of three candidates and met the target
\* at the third check.
C17_Witness ==
    /\ pc = "done"
    /\ Len(scanned) = 3
    /\ PathsOf(EventsOf("report")) = <<scanned[1], scanned[2]>>
    /\ IsReading(Len(trace)) /\ trace[Len(trace)].val < target_use_percentage
    /\ ~actually_rm

----------------------------------------------------------------------------
ScanAt == {i \in Idx : trace[i].ev = "scan"}

\* Files another process created after the scan had returned
CreatedAfterScan == others.after_scan

\* C18: the queue is built once per run and never scanned again: what is
\* left of it is always a tail of what the scan returned, and a matching
\* file another process creates after the scan is never queued, reported or
\* deleted by the run, however the creation interleaves with the loop.
C18_NoRescan ==
    /\ Cardinality(ScanAt) <= 1
    /\ \E n \in 0..Len(scanned) : matches = SubSeq(scanned, n + 1, Len(scanned))
    /\ \A p \in CreatedAfterScan :
          /\ candidate # p
          /\ \A i \in 1..Len(matches) : matches[i] # p
          /\ \A i \in Idx : trace[i].ev \in {"report", "remove"} => trace[i].val # p

\* A matching file appeared after the scan; the run used up its queue with
\* the target unmet and the new file is still there.
C18_Witness ==
    /\ pc = "done"
    /\ actually_rm
    /\ scanned # <<>> /\ matches = <<>>
    /\ Len(RemovedSeq) = Len(scanned)
    /\ \E p \in CreatedAfterScan : p \in disk
    /\ ~(IsReading(Len(trace)) /\ trace[Len(trace)].val < target_use_percentage)

\* Path p was removed by another process.  Other processes act while main
\* runs and only on files that exist, so for a path main has called
\* remove_file on, that removal came before the call.
UnlinkedBefore(p) == p \in others.unlinked

\* C19: nothing protects a queued candidate from removal by another
\* process.  A commit run that reaches the remove_file call of a candidate
\* another process has removed fails there and aborts, later candidates
\* untouched; a dry run never fails on that account (only on a failed usage
\* query).
C19_ConcurrentUnlink ==
    /\ \A i \in Idx :
          (trace[i].ev = "remove" /\ UnlinkedBefore(trace[i].val))
              => /\ trace[i].res = "Err"
                 /\ i = Len(trace)
                 /\ pc = "failed"
                 /\ \A m \in 1..Len(matches) :
                       \A j \in Idx : trace[j].ev \in {"report", "remove"}
                                          => trace[j].val # matches[m]
    /\ (~actually_rm /\ pc = "failed")
          => (trace[Len(trace)].ev = "usage" /\ trace[Len(trace)].res = "Err")

\* Another process removed the second candidate before the loop reached it:
\* the first removal succeeded, the second failed, the third is untouched.
C19_Witness ==
    /\ pc = "failed"
    /\ Len(scanned) = 3
    /\ RemovedSeq = <<scanned[1]>>
    /\ trace[Len(trace)] = Event("remove", "Err", scanned[2])
    /\ UnlinkedBefore(scanned[2])
    /\ matches = <<scanned[3]>> /\ scanned[3] \in disk

----------------------------------------------------------------------------
\* C20: with target_percent = 0 no reading is below target, so neither the
\* initial short-circuit nor the stop in the loop fires: a run that ends
\* without error has scanned, has reported every candidate of the queue in
\* order and, in commit mode, has deleted every one of them.
C20_TargetZeroTakesAll ==
    (target_use_percentage = 0 /\ pc = "done")
        => /\ Scanned
           /\ matches = <<>>
           /\ PathsOf(EventsOf("report")) = scanned
           /\ actually_rm => /\ RemovedSeq = scanned
                             /\ disk = InitialDisk \ {scanned[i] : i \in 1..Len(scanned)}
           /\ ~actually_rm => disk = InitialDisk

\* Target 0, every reading 0: all three candidates deleted.
C20_Witness ==
    /\ target_use_percentage = 0 /\ pc = "done" /\ actually_rm
    /\ Len(scanned) = 3 /\ RemovedSeq = scanned
    /\ \A i \in Idx : trace[i].ev = "usage" => trace[i] = Event("usage", "Ok", 0)

====
